---- MODULE Spec2Model ----
(***************************************************************************)
(* Lifecycle model of pegnetd's root command (cmd/root.go).                *)
(*                                                                         *)
(* The primary path walks cobra's hook order for one command execution:    *)
(*   Execute -> always (PersistentPreRun) -> ReadConfig / SoftReadConfig   *)
(*   (PreRun) -> Run.                                                      *)
(* Two goroutines run beside it: the interrupt listener spawned by always  *)
(* and the API server task spawned by Run.  os.Exit from any of them ends  *)
(* the process; whoever gets there first decides the exit status.          *)
(*                                                                         *)
(* Strings are sequences of ASCII codes so that strings.ToLower is a real  *)
(* conversion.                                                             *)
(***************************************************************************)
EXTENDS Integers, Sequences, FiniteSets, TLC

VARIABLES
    command,         \* which cobra command is executed: "root" or "aux"
    argsOK,          \* cobra could parse the command line
    testing,         \* value of the --testing flag
    flagLog,         \* value of --log when the user set it, else Unset
    fileLog,         \* value of the log level key in the config file, else Unset
    flagsSet,        \* the other flag-bound keys whose flag the user set
    fileKeys,        \* the other keys the config file supplies
    latePolicy,      \* ExitHandler's fixed policy for AddCancel after Close
    pc,              \* position of the primary path
    activation,      \* activation heights, by parameter name
    grading,         \* grading selector, by network: a function of the height
    viperName,       \* config name and search paths are set
    viperBound,      \* configuration keys bound to a CLI flag
    viperDefaults,   \* configuration keys with a seeded default
    viperFile,       \* "unread", "loaded" or "failed"
    logLevel,        \* logrus threshold
    initLoggerCalls, \* number of initLogger calls so far
    listenerPc,      \* position of the interrupt listener goroutine
    signalChan,      \* number of signals buffered in signalChan (capacity 1)
    interrupts,      \* interrupts delivered so far
    exitHandler,     \* exit.GlobalExitHandler: [cancels, closed]
    cancelRuns,      \* how often each cancel callback has been invoked
    closeCalls,      \* number of ExitHandler.Close calls so far
    ctx,             \* root context: "none", "live" or "cancelled"
    node,            \* synchronizer: "none", "ok" or "failed"
    apiserver,       \* API server: "none", "constructed", "running", "returned"
    tokens,          \* the context each subsystem was handed: "none", "root", "background"
    terminated,      \* the process has ended
    exitStatus,      \* its exit status, -1 while running
    exitBy           \* the statement that ended it

inputs == <<command, argsOK, testing, flagLog, fileLog, flagsSet, fileKeys, latePolicy>>
bootVars == <<activation, grading, viperName, viperBound, viperDefaults>>
confVars == <<viperFile, logLevel, initLoggerCalls>>
sigVars == <<listenerPc, signalChan, interrupts>>
ehVars == <<exitHandler, cancelRuns, closeCalls, ctx>>
subVars == <<node, apiserver, tokens>>
exitVars == <<terminated, exitStatus, exitBy>>
vars == <<inputs, pc, bootVars, confVars, sigVars, ehVars, subVars, exitVars>>

----------------------------------------------------------------------------
(* Bounds *)

MaxInterrupts == 2
MaxCallbacks == 3
MaxCloseCalls == 3
MaxHeight == 1
MaxLoggerCalls == 2

----------------------------------------------------------------------------
(* Strings *)

Unset == <<0>>
S_empty == <<>>
S_info == <<105, 110, 102, 111>>
S_trace == <<116, 114, 97, 99, 101>>
S_debug == <<100, 101, 98, 117, 103>>
S_warn == <<119, 97, 114, 110>>
S_error == <<101, 114, 114, 111, 114>>
S_fatal == <<102, 97, 116, 97, 108>>
S_DEBUG == <<68, 69, 66, 85, 71>>
S_Warn == <<87, 97, 114, 110>>
S_bogus == <<98, 111, 103, 117, 115>>

LogInputs == {Unset, S_DEBUG, S_bogus}
FileInputs == {Unset, S_Warn, S_empty}

ToLowerCh(c) == IF c >= 65 /\ c <= 90 THEN c + 32 ELSE c
ToLower(s) == [i \in DOMAIN s |-> ToLowerCh(s[i])]

----------------------------------------------------------------------------
(* Configuration keys and activation parameters *)

LoggingLevel == "LoggingLevel"
FlagKeys_NoWallet == {LoggingLevel, "Server", "Pegnetd", "APIListen"}
FlagKeys == {LoggingLevel, "Server", "Wallet", "Pegnetd", "APIListen"}
DefaultKeys == {"DBlockSyncRetryPeriod", "SqliteDBPath"}

Networks == {"MainNet", "TestNet"}
ActNames == {"PegnetActivation", "GradingV2Activation", "MainNet", "TestNet"}

\* Heights a grading selector is asked about.
Heights == 0 .. MaxHeight

\* A selector as the library may define it before any override: version 1
\* below the activation height h, version 2 from it.
DefaultGrading(h) == [x \in Heights |-> IF x < h THEN 1 ELSE 2]

\* func(height int64) uint8 { return 2 }
Always2 == [x \in Heights |-> 2]

\* viper.GetString(config.LoggingLevel): a flag the user set wins over the
\* file, the file over the flag's default; an unbound key with no file value
\* reads as the empty string.
GetLogLevel(bound, file, fl, fi) ==
    IF LoggingLevel \in bound /\ fl # Unset THEN fl
    ELSE IF file = "loaded" /\ fi # Unset THEN fi
    ELSE IF LoggingLevel \in bound THEN S_info
    ELSE S_empty

\* viper's Get for the other keys, by the tier the value comes from: the
\* flag when the key is bound and the user set the flag, else the file, else
\* the bound flag's default, else the seeded default, else the zero value.
GetValue(key, bound, defaults, file, fset, fkeys) ==
    IF key \in bound /\ key \in fset THEN <<"flag", key>>
    ELSE IF file = "loaded" /\ key \in fkeys THEN <<"file", key>>
    ELSE IF key \in bound THEN <<"flagdefault", key>>
    ELSE IF key \in defaults THEN <<"default", key>>
    ELSE <<"zero", key>>

initLogger_NoLower(name, old) ==
    CASE name = S_trace -> "TraceLevel"
      [] name = S_debug -> "DebugLevel"
      [] name = S_info -> "InfoLevel"
      [] name = S_warn -> "WarnLevel"
      [] name = S_error -> "ErrorLevel"
      [] name = S_fatal -> "FatalLevel"
      [] OTHER -> old

\* initLogger: the threshold after the call, given the configured name and
\* the threshold before it.
initLogger(name, old) ==
    LET l == ToLower(name) IN
    CASE l = S_trace -> "TraceLevel"
      [] l = S_debug -> "DebugLevel"
      [] l = S_info -> "InfoLevel"
      [] l = S_warn -> "WarnLevel"
      [] l = S_error -> "ErrorLevel"
      [] l = S_fatal -> "FatalLevel"
      [] OTHER -> old

----------------------------------------------------------------------------
(* exit.GlobalExitHandler and the root cancel function *)

Fns == 1 .. MaxCallbacks
RootCancel == 1

Callbacks(h) == {h.cancels[i] : i \in DOMAIN h.cancels}

CloseInvokes_Always(h) == Callbacks(h)

\* The callbacks a Close call invokes: all of them the first time, none after.
CloseInvokes(h) == IF h.closed THEN {} ELSE Callbacks(h)

CloseHandler(h) == [h EXCEPT !.closed = TRUE]

\* The callbacks an AddCancel call invokes: the new one when the handler is
\* already closed and the policy is to invoke late registrations.
AddCancelInvokes(h, fn, policy) ==
    IF h.closed /\ policy = "invoke" THEN {fn} ELSE {}

AddCancel(h, fn) == [h EXCEPT !.cancels = Append(@, fn)]

Invoke(runs, fns) == [f \in DOMAIN runs |-> runs[f] + (IF f \in fns THEN 1 ELSE 0)]

\* The cancel function of context.WithCancel: cancels once, then is a no-op.
CancelCtx(c, fns) == IF RootCancel \in fns /\ c = "live" THEN "cancelled" ELSE c

\* ExitHandler.Close(), with its effect on the callbacks and on the context.
HandlerClose ==
    /\ closeCalls' = closeCalls + 1
    /\ cancelRuns' = Invoke(cancelRuns, CloseInvokes(exitHandler))
    /\ ctx' = CancelCtx(ctx, CloseInvokes(exitHandler))
    /\ exitHandler' = CloseHandler(exitHandler)

\* ExitHandler.AddCancel(fn), likewise.
HandlerAddCancel(fn) ==
    /\ exitHandler' = AddCancel(exitHandler, fn)
    /\ cancelRuns' = Invoke(cancelRuns, AddCancelInvokes(exitHandler, fn, latePolicy))
    /\ ctx' = CancelCtx(ctx, AddCancelInvokes(exitHandler, fn, latePolicy))
    /\ UNCHANGED closeCalls

----------------------------------------------------------------------------
(* Process start *)

Init ==
    /\ command \in {"root", "aux"}
    /\ argsOK \in BOOLEAN
    /\ testing \in BOOLEAN
    /\ flagLog \in LogInputs
    /\ fileLog \in FileInputs
    /\ flagsSet = {}
    /\ fileKeys = {}
    /\ latePolicy \in {"invoke", "skip"}
    /\ pc = "execute"
    /\ \E h \in 0 .. MaxHeight :
          /\ activation = [n \in ActNames |-> h]
          /\ grading = [n \in Networks |-> DefaultGrading(h)]
    /\ viperName = FALSE
    /\ viperBound = {}
    /\ viperDefaults = {}
    /\ viperFile = "unread"
    /\ logLevel = "InfoLevel"
    /\ initLoggerCalls = 0
    /\ listenerPc = "none"
    /\ signalChan = 0
    /\ interrupts = 0
    /\ exitHandler = [cancels |-> <<>>, closed |-> FALSE]
    /\ cancelRuns = [f \in Fns |-> 0]
    /\ closeCalls = 0
    /\ ctx = "none"
    /\ node = "none"
    /\ apiserver = "none"
    /\ tokens = [sync |-> "none", api |-> "none"]
    /\ terminated = FALSE
    /\ exitStatus = -1
    /\ exitBy = "none"

Exit(status, by) ==
    /\ terminated' = TRUE
    /\ exitStatus' = status
    /\ exitBy' = by

----------------------------------------------------------------------------
(* Execute: cobra parses the command line and runs the hooks *)

ExecuteParse ==
    /\ ~terminated
    /\ pc = "execute"
    /\ pc' = IF argsOK THEN "always_testing" ELSE "execute_err"
    /\ UNCHANGED <<inputs, bootVars, confVars, sigVars, ehVars, subVars, exitVars>>

ExecuteError ==
    /\ ~terminated
    /\ pc = "execute_err"
    /\ pc' = "exited"
    /\ Exit(1, "Execute")
    /\ UNCHANGED <<inputs, bootVars, confVars, sigVars, ehVars, subVars>>

ExecuteReturn ==
    /\ ~terminated
    /\ pc = "run_return"
    /\ pc' = "exited"
    /\ Exit(0, "return")
    /\ UNCHANGED <<inputs, bootVars, confVars, sigVars, ehVars, subVars>>

----------------------------------------------------------------------------
(* always: PersistentPreRun of every command *)

AlwaysTesting_Listener ==
    /\ ~terminated
    /\ pc = "always_testing"
    /\ pc' = "always_config"
    /\ listenerPc' = "waiting"
    /\ UNCHANGED <<inputs, bootVars, confVars, signalChan, interrupts, ehVars,
                   subVars, exitVars>>

AlwaysTesting_MainOnly ==
    /\ ~terminated
    /\ pc = "always_testing"
    /\ pc' = "always_config"
    /\ IF testing
       THEN /\ activation' = [n \in ActNames |->
                                 IF n = "TestNet" THEN activation[n] ELSE 0]
            /\ grading' = [grading EXCEPT !["MainNet"] = Always2]
       ELSE UNCHANGED <<activation, grading>>
    /\ UNCHANGED <<inputs, viperName, viperBound, viperDefaults, confVars, sigVars,
                   ehVars, subVars, exitVars>>

AlwaysTesting ==
    /\ ~terminated
    /\ pc = "always_testing"
    /\ pc' = "always_config"
    /\ IF testing
       THEN /\ activation' = [n \in ActNames |-> 0]
            /\ grading' = [n \in Networks |-> Always2]
       ELSE UNCHANGED <<activation, grading>>
    /\ UNCHANGED <<inputs, viperName, viperBound, viperDefaults, confVars, sigVars,
                   ehVars, subVars, exitVars>>

AlwaysConfig ==
    /\ ~terminated
    /\ pc = "always_config"
    /\ pc' = "always_defaults"
    /\ viperName' = TRUE
    /\ viperBound' = viperBound \cup FlagKeys
    /\ UNCHANGED <<inputs, activation, grading, viperDefaults, confVars, sigVars,
                   ehVars, subVars, exitVars>>

AlwaysDefaults ==
    /\ ~terminated
    /\ pc = "always_defaults"
    /\ pc' = "always_signal"
    /\ viperDefaults' = viperDefaults \cup DefaultKeys
    /\ UNCHANGED <<inputs, activation, grading, viperName, viperBound, confVars,
                   sigVars, ehVars, subVars, exitVars>>

\* signal.Notify registers signalChan and the listener goroutine starts
\* waiting on it; always returns and cobra goes on to the command's PreRun.
AlwaysSignal ==
    /\ ~terminated
    /\ pc = "always_signal"
    /\ pc' = IF command = "root" THEN "readconfig" ELSE "softreadconfig"
    /\ listenerPc' = "waiting"
    /\ UNCHANGED <<inputs, bootVars, confVars, signalChan, interrupts, ehVars,
                   subVars, exitVars>>

----------------------------------------------------------------------------
(* The interrupt listener goroutine and the operating system *)

\* The OS delivers SIGINT.  signal.Notify's send does not block: the signal
\* is dropped when the channel's one slot is taken.
Interrupt ==
    /\ ~terminated
    /\ listenerPc # "none"
    /\ interrupts < MaxInterrupts
    /\ interrupts' = interrupts + 1
    /\ signalChan' = 1
    /\ UNCHANGED <<inputs, pc, bootVars, confVars, listenerPc, ehVars, subVars,
                   exitVars>>

ListenerRecv_SkipClose ==
    /\ ~terminated
    /\ listenerPc = "waiting"
    /\ signalChan > 0
    /\ signalChan' = signalChan - 1
    /\ listenerPc' = "exiting"
    /\ UNCHANGED <<inputs, pc, bootVars, confVars, interrupts, ehVars, subVars,
                   exitVars>>

ListenerRecv ==
    /\ ~terminated
    /\ listenerPc = "waiting"
    /\ signalChan > 0
    /\ signalChan' = signalChan - 1
    /\ listenerPc' = "closing"
    /\ UNCHANGED <<inputs, pc, bootVars, confVars, interrupts, ehVars, subVars,
                   exitVars>>

ListenerClose ==
    /\ ~terminated
    /\ listenerPc = "closing"
    /\ listenerPc' = "exiting"
    /\ HandlerClose
    /\ UNCHANGED <<inputs, pc, bootVars, confVars, signalChan, interrupts, subVars,
                   exitVars>>

ListenerExit_Loop ==
    /\ ~terminated
    /\ listenerPc = "exiting"
    /\ listenerPc' = "waiting"
    /\ UNCHANGED <<inputs, pc, bootVars, confVars, signalChan, interrupts, ehVars,
                   subVars, exitVars>>

ListenerExit_Missing ==
    /\ ~terminated
    /\ listenerPc = "exiting"
    /\ listenerPc' = "done"
    /\ UNCHANGED <<inputs, pc, bootVars, confVars, signalChan, interrupts, ehVars,
                   subVars, exitVars>>

ListenerExit_Status1 ==
    /\ ~terminated
    /\ listenerPc = "exiting"
    /\ listenerPc' = "done"
    /\ Exit(1, "listener")
    /\ UNCHANGED <<inputs, pc, bootVars, confVars, signalChan, interrupts, ehVars,
                   subVars>>

ListenerExit ==
    /\ ~terminated
    /\ listenerPc = "exiting"
    /\ listenerPc' = "done"
    /\ Exit(0, "listener")
    /\ UNCHANGED <<inputs, pc, bootVars, confVars, signalChan, interrupts, ehVars,
                   subVars>>

----------------------------------------------------------------------------
(* ReadConfig: PreRun of the root command *)

\* viper.ReadInConfig: the file is found and parsed, or it is not.
ReadConfigLoad ==
    /\ ~terminated
    /\ pc = "readconfig"
    /\ \E ok \in BOOLEAN :
          /\ viperFile' = IF ok THEN "loaded" ELSE "failed"
          /\ pc' = IF ok THEN "readconfig_initlogger" ELSE "readconfig_exit"
    /\ UNCHANGED <<inputs, bootVars, logLevel, initLoggerCalls, sigVars, ehVars,
                   subVars, exitVars>>

ReadConfigExit ==
    /\ ~terminated
    /\ pc = "readconfig_exit"
    /\ pc' = "exited"
    /\ Exit(1, "ReadConfig")
    /\ UNCHANGED <<inputs, bootVars, confVars, sigVars, ehVars, subVars>>

ReadConfigInitLogger_Skip ==
    /\ ~terminated
    /\ pc = "readconfig_initlogger"
    /\ pc' = "run_ctx"
    /\ UNCHANGED <<inputs, bootVars, confVars, sigVars, ehVars, subVars, exitVars>>

ReadConfigInitLogger ==
    /\ ~terminated
    /\ pc = "readconfig_initlogger"
    /\ pc' = "run_ctx"
    /\ logLevel' = initLogger(GetLogLevel(viperBound, viperFile, flagLog, fileLog),
                              logLevel)
    /\ initLoggerCalls' = initLoggerCalls + 1
    /\ UNCHANGED <<inputs, bootVars, viperFile, sigVars, ehVars, subVars, exitVars>>

----------------------------------------------------------------------------
(* SoftReadConfig: PreRun of a command that is happy with the defaults *)

SoftReadConfigLoad_Fatal ==
    /\ ~terminated
    /\ pc = "softreadconfig"
    /\ \E ok \in BOOLEAN :
          /\ viperFile' = IF ok THEN "loaded" ELSE "failed"
          /\ pc' = IF ok THEN "softreadconfig_initlogger" ELSE "readconfig_exit"
    /\ UNCHANGED <<inputs, bootVars, logLevel, initLoggerCalls, sigVars, ehVars,
                   subVars, exitVars>>

SoftReadConfigLoad ==
    /\ ~terminated
    /\ pc = "softreadconfig"
    /\ \E ok \in BOOLEAN :
          /\ viperFile' = IF ok THEN "loaded" ELSE "failed"
          /\ pc' = "softreadconfig_initlogger"
    /\ UNCHANGED <<inputs, bootVars, logLevel, initLoggerCalls, sigVars, ehVars,
                   subVars, exitVars>>

SoftReadConfigInitLogger ==
    /\ ~terminated
    /\ pc = "softreadconfig_initlogger"
    /\ pc' = "aux_run"
    /\ logLevel' = initLogger(GetLogLevel(viperBound, viperFile, flagLog, fileLog),
                              logLevel)
    /\ initLoggerCalls' = initLoggerCalls + 1
    /\ UNCHANGED <<inputs, bootVars, viperFile, sigVars, ehVars, subVars, exitVars>>

\* The command's own Run, which is not part of this file: it returns.
AuxRun ==
    /\ ~terminated
    /\ pc = "aux_run"
    /\ pc' = "run_return"
    /\ UNCHANGED <<inputs, bootVars, confVars, sigVars, ehVars, subVars, exitVars>>

----------------------------------------------------------------------------
(* Run of the root command *)

RunWithCancel ==
    /\ ~terminated
    /\ pc = "run_ctx"
    /\ pc' = "run_addcancel"
    /\ ctx' = "live"
    /\ UNCHANGED <<inputs, bootVars, confVars, sigVars, exitHandler, cancelRuns,
                   closeCalls, subVars, exitVars>>

RunAddCancel_Missing ==
    /\ ~terminated
    /\ pc = "run_addcancel"
    /\ pc' = "run_newpegnetd"
    /\ UNCHANGED <<inputs, bootVars, confVars, sigVars, ehVars, subVars, exitVars>>

RunAddCancel ==
    /\ ~terminated
    /\ pc = "run_addcancel"
    /\ pc' = "run_newpegnetd"
    /\ HandlerAddCancel(RootCancel)
    /\ UNCHANGED <<inputs, bootVars, confVars, sigVars, subVars, exitVars>>

RunNewPegnetd_IgnoreErr ==
    /\ ~terminated
    /\ pc = "run_newpegnetd"
    /\ \E ok \in BOOLEAN :
          /\ node' = IF ok THEN "ok" ELSE "failed"
          /\ pc' = "run_newapiserver"
    /\ tokens' = [tokens EXCEPT !.sync = "root"]
    /\ UNCHANGED <<inputs, bootVars, confVars, sigVars, ehVars, apiserver, exitVars>>

\* node.NewPegnetd returns a synchronizer or an error.
RunNewPegnetd ==
    /\ ~terminated
    /\ pc = "run_newpegnetd"
    /\ \E ok \in BOOLEAN :
          /\ node' = IF ok THEN "ok" ELSE "failed"
          /\ pc' = IF ok THEN "run_newapiserver" ELSE "run_exit"
    /\ tokens' = [tokens EXCEPT !.sync = "root"]
    /\ UNCHANGED <<inputs, bootVars, confVars, sigVars, ehVars, apiserver, exitVars>>

RunExit ==
    /\ ~terminated
    /\ pc = "run_exit"
    /\ pc' = "exited"
    /\ Exit(1, "Run")
    /\ UNCHANGED <<inputs, bootVars, confVars, sigVars, ehVars, subVars>>

RunNewAPIServer_SeedsDefault ==
    /\ ~terminated
    /\ pc = "run_newapiserver"
    /\ pc' = "run_gostart"
    /\ apiserver' = "constructed"
    /\ viperDefaults' = viperDefaults \cup {"APIListen"}
    /\ UNCHANGED <<inputs, activation, grading, viperName, viperBound, confVars,
                   sigVars, ehVars, node, tokens, exitVars>>

RunNewAPIServer ==
    /\ ~terminated
    /\ pc = "run_newapiserver"
    /\ pc' = "run_gostart"
    /\ apiserver' = "constructed"
    /\ UNCHANGED <<inputs, bootVars, confVars, sigVars, ehVars, node, tokens, exitVars>>

RunGoStart_Checked ==
    /\ ~terminated
    /\ pc = "run_gostart"
    /\ \E ok \in BOOLEAN :
          IF ok
          THEN /\ apiserver' = "running"
               /\ pc' = "run_dblocksync"
               /\ UNCHANGED exitVars
          ELSE /\ apiserver' = "returned"
               /\ pc' = "exited"
               /\ Exit(1, "Run")
    /\ tokens' = [tokens EXCEPT !.api = "root"]
    /\ UNCHANGED <<inputs, bootVars, confVars, sigVars, ehVars, node>>

RunGoStart_Background ==
    /\ ~terminated
    /\ pc = "run_gostart"
    /\ pc' = "run_dblocksync"
    /\ apiserver' = "running"
    /\ tokens' = [tokens EXCEPT !.api = "background"]
    /\ UNCHANGED <<inputs, bootVars, confVars, sigVars, ehVars, node, exitVars>>

\* go apiserver.Start(ctx.Done()): the task runs beside the primary path,
\* holding the root context's done channel.
RunGoStart ==
    /\ ~terminated
    /\ pc = "run_gostart"
    /\ pc' = "run_dblocksync"
    /\ apiserver' = "running"
    /\ tokens' = [tokens EXCEPT !.api = "root"]
    /\ UNCHANGED <<inputs, bootVars, confVars, sigVars, ehVars, node, exitVars>>

\* The API server task returns: on an error of its own, or after ctx.Done()
\* fired.  Nothing reads its result.
APIServerReturn ==
    /\ ~terminated
    /\ apiserver = "running"
    /\ apiserver' = "returned"
    /\ UNCHANGED <<inputs, pc, bootVars, confVars, sigVars, ehVars, node, tokens,
                   exitVars>>

\* node.DBlockSync(ctx) is entered and blocks the primary path.
RunDBlockSync ==
    /\ ~terminated
    /\ pc = "run_dblocksync"
    /\ pc' = "in_dblocksync"
    /\ tokens' = [tokens EXCEPT !.sync = "root"]
    /\ UNCHANGED <<inputs, bootVars, confVars, sigVars, ehVars, node, apiserver,
                   exitVars>>

DBlockSyncReturn_Cancel ==
    /\ ~terminated
    /\ pc = "in_dblocksync"
    /\ pc' = "run_return"
    /\ cancelRuns' = Invoke(cancelRuns, {RootCancel})
    /\ ctx' = CancelCtx(ctx, {RootCancel})
    /\ UNCHANGED <<inputs, bootVars, confVars, sigVars, exitHandler, closeCalls,
                   subVars, exitVars>>

DBlockSyncReturn_WaitsAPI ==
    /\ ~terminated
    /\ pc = "in_dblocksync"
    /\ apiserver = "returned"
    /\ pc' = "run_return"
    /\ UNCHANGED <<inputs, bootVars, confVars, sigVars, ehVars, subVars, exitVars>>

\* DBlockSync returns: on success, on an unrecoverable error, or on
\* cancellation of ctx.  Run returns with it.
DBlockSyncReturn ==
    /\ ~terminated
    /\ pc = "in_dblocksync"
    /\ pc' = "run_return"
    /\ UNCHANGED <<inputs, bootVars, confVars, sigVars, ehVars, subVars, exitVars>>

----------------------------------------------------------------------------
(* The program *)

Next ==
    \/ ExecuteParse
    \/ ExecuteError
    \/ ExecuteReturn
    \/ AlwaysTesting
    \/ AlwaysConfig
    \/ AlwaysDefaults
    \/ AlwaysSignal
    \/ Interrupt
    \/ ListenerRecv
    \/ ListenerClose
    \/ ListenerExit
    \/ ReadConfigLoad
    \/ ReadConfigExit
    \/ ReadConfigInitLogger
    \/ SoftReadConfigLoad
    \/ SoftReadConfigInitLogger
    \/ AuxRun
    \/ RunWithCancel
    \/ RunAddCancel
    \/ RunNewPegnetd
    \/ RunExit
    \/ RunNewAPIServer
    \/ RunGoStart
    \/ APIServerReturn
    \/ RunDBlockSync
    \/ DBlockSyncReturn

Spec == Init /\ [][Next]_vars

\* The Go scheduler runs a runnable goroutine eventually: the listener takes
\* each of its steps once it can.
ListenerFairness ==
    /\ WF_vars(ListenerRecv)
    /\ WF_vars(ListenerClose)
    /\ WF_vars(ListenerExit)

LiveSpec == Init /\ [][Next]_vars /\ ListenerFairness

\* The primary path is straight-line code and takes each step of Run once it
\* can; the synchronizer's loop, by its contract, returns once its context
\* is cancelled.  Nothing is assumed of the listener or of the API task.
PrimaryFairness ==
    /\ WF_vars(RunAddCancel)
    /\ WF_vars(RunNewPegnetd)
    /\ WF_vars(RunExit)
    /\ WF_vars(RunNewAPIServer)
    /\ WF_vars(RunGoStart)
    /\ WF_vars(RunDBlockSync)
    /\ WF_vars(ctx = "cancelled" /\ DBlockSyncReturn)

CancelSpec == Init /\ [][Next]_vars /\ PrimaryFairness

----------------------------------------------------------------------------
(* The exit handler on its own: any sequence of AddCancel and Close calls *)

ExitInit ==
    /\ command = "root"
    /\ argsOK = TRUE
    /\ testing = FALSE
    /\ flagLog = Unset
    /\ fileLog = Unset
    /\ flagsSet = {}
    /\ fileKeys = {}
    /\ latePolicy \in {"invoke", "skip"}
    /\ pc = "handler"
    /\ activation = [n \in ActNames |-> 0]
    /\ grading = [n \in Networks |-> DefaultGrading(0)]
    /\ viperName = FALSE
    /\ viperBound = {}
    /\ viperDefaults = {}
    /\ viperFile = "unread"
    /\ logLevel = "InfoLevel"
    /\ initLoggerCalls = 0
    /\ listenerPc = "none"
    /\ signalChan = 0
    /\ interrupts = 0
    /\ exitHandler = [cancels |-> <<>>, closed |-> FALSE]
    /\ cancelRuns = [f \in Fns |-> 0]
    /\ closeCalls = 0
    /\ ctx = "live"
    /\ node = "none"
    /\ apiserver = "none"
    /\ tokens = [sync |-> "none", api |-> "none"]
    /\ terminated = FALSE
    /\ exitStatus = -1
    /\ exitBy = "none"

\* A callback is registered once: every context.WithCancel yields a new one.
ExitAddCancel ==
    /\ pc = "handler"
    /\ \E fn \in Fns \ Callbacks(exitHandler) : HandlerAddCancel(fn)
    /\ UNCHANGED <<inputs, pc, bootVars, confVars, sigVars, subVars, exitVars>>

ExitClose ==
    /\ pc = "handler"
    /\ closeCalls < MaxCloseCalls
    /\ HandlerClose
    /\ UNCHANGED <<inputs, pc, bootVars, confVars, sigVars, subVars, exitVars>>

ExitNext ==
    \/ ExitAddCancel
    \/ ExitClose

ExitSpec == ExitInit /\ [][ExitNext]_vars

----------------------------------------------------------------------------
(* initLogger on its own: any configured name, any threshold set before *)

Levels ==
    {"PanicLevel", "FatalLevel", "ErrorLevel", "WarnLevel", "InfoLevel",
     "DebugLevel", "TraceLevel"}

LevelNames == {S_trace, S_debug, S_info, S_warn, S_error, S_fatal}

S_panic == <<112, 97, 110, 105, 99>>
S_warning == <<119, 97, 114, 110, 105, 110, 103>>
S_inf == <<105, 110, 102>>

Upper(s) == [i \in DOMAIN s |-> s[i] - 32]
Capitalized(s) == [i \in DOMAIN s |-> IF i = 1 THEN s[i] - 32 ELSE s[i]]

\* Names to configure: the six in lower, upper and mixed case, and names
\* outside the six.
LoggerNames ==
    LevelNames
        \cup {Upper(n) : n \in LevelNames}
        \cup {Capitalized(n) : n \in LevelNames}
        \cup {S_empty, S_bogus, S_panic, S_warning, S_inf}

LoggerInit ==
    /\ command = "root"
    /\ argsOK = TRUE
    /\ testing = FALSE
    /\ flagLog = Unset
    /\ fileLog = Unset
    /\ flagsSet = {}
    /\ fileKeys = {}
    /\ latePolicy = "skip"
    /\ pc = "logger"
    /\ activation = [n \in ActNames |-> 0]
    /\ grading = [n \in Networks |-> DefaultGrading(0)]
    /\ viperName = TRUE
    /\ viperBound = FlagKeys
    /\ viperDefaults = DefaultKeys
    /\ viperFile = "loaded"
    /\ logLevel \in Levels
    /\ initLoggerCalls = 0
    /\ listenerPc = "none"
    /\ signalChan = 0
    /\ interrupts = 0
    /\ exitHandler = [cancels |-> <<>>, closed |-> FALSE]
    /\ cancelRuns = [f \in Fns |-> 0]
    /\ closeCalls = 0
    /\ ctx = "none"
    /\ node = "none"
    /\ apiserver = "none"
    /\ tokens = [sync |-> "none", api |-> "none"]
    /\ terminated = FALSE
    /\ exitStatus = -1
    /\ exitBy = "none"

\* The level is configured as name (--log name) and initLogger is called.
LoggerCall ==
    /\ pc = "logger"
    /\ initLoggerCalls < MaxLoggerCalls
    /\ \E name \in LoggerNames :
          /\ flagLog' = name
          /\ logLevel' = initLogger(GetLogLevel(viperBound, viperFile, name, fileLog),
                                    logLevel)
    /\ initLoggerCalls' = initLoggerCalls + 1
    /\ UNCHANGED <<command, argsOK, testing, fileLog, flagsSet, fileKeys,
                   latePolicy, pc, bootVars,
                   viperFile, sigVars, ehVars, subVars, exitVars>>

LoggerNext == LoggerCall

LoggerSpec == LoggerInit /\ [][LoggerNext]_vars

----------------------------------------------------------------------------
(* The configuration after the hooks: any flags set, any file contents *)

\* The keys of the flags --server, --wallet, --pegnetd and --api.
OtherFlags == {"Server", "Wallet", "Pegnetd", "APIListen"}
OtherKeys == OtherFlags \cup {"DBlockSyncRetryPeriod", "SqliteDBPath"}

ConfigInit ==
    /\ command \in {"root", "aux"}
    /\ argsOK = TRUE
    /\ testing = FALSE
    /\ flagLog \in {Unset, S_DEBUG}
    /\ fileLog \in {Unset, S_Warn}
    /\ flagsSet \in SUBSET OtherFlags
    /\ fileKeys \in SUBSET OtherKeys
    /\ latePolicy = "skip"
    /\ pc = "execute"
    /\ activation = [n \in ActNames |-> 0]
    /\ grading = [n \in Networks |-> DefaultGrading(0)]
    /\ viperName = FALSE
    /\ viperBound = {}
    /\ viperDefaults = {}
    /\ viperFile = "unread"
    /\ logLevel = "InfoLevel"
    /\ initLoggerCalls = 0
    /\ listenerPc = "none"
    /\ signalChan = 0
    /\ interrupts = 0
    /\ exitHandler = [cancels |-> <<>>, closed |-> FALSE]
    /\ cancelRuns = [f \in Fns |-> 0]
    /\ closeCalls = 0
    /\ ctx = "none"
    /\ node = "none"
    /\ apiserver = "none"
    /\ tokens = [sync |-> "none", api |-> "none"]
    /\ terminated = FALSE
    /\ exitStatus = -1
    /\ exitBy = "none"

\* The hooks that build the configuration, up to the end of PreRun.
ConfigNext ==
    \/ ExecuteParse
    \/ AlwaysTesting
    \/ AlwaysConfig
    \/ AlwaysDefaults
    \/ AlwaysSignal
    \/ ReadConfigLoad
    \/ ReadConfigExit
    \/ ReadConfigInitLogger
    \/ SoftReadConfigLoad
    \/ SoftReadConfigInitLogger

ConfigSpec == ConfigInit /\ [][ConfigNext]_vars

----------------------------------------------------------------------------
(* Properties *)

APITaskStarted == apiserver \in {"running", "returned"}

\* A subsystem (synchronizer or API server) is being or has been constructed.
ConstructionAttempted ==
    \/ pc \in {"run_newpegnetd", "run_newapiserver"}
    \/ node # "none"
    \/ apiserver # "none"

\* A holder observes cancellation when the context it was handed is the
\* root context and that context is cancelled.
Observes(h) == tokens[h] = "root" /\ ctx = "cancelled"

\* C1: whenever the API server task exists, the root cancel function is in
\* the exit handler's registry, so a Close triggered by an interrupt from
\* then on finds it; and the step that starts the task starts from a state
\* where it is already registered.
C1_CancelRegisteredBeforeAPIStart ==
    APITaskStarted => RootCancel \in Callbacks(exitHandler)

\* An interrupt was received while the API task runs, Close is about to run,
\* and the cancel function is there for it.
C1_Witness ==
    /\ apiserver = "running"
    /\ listenerPc = "closing"
    /\ ~exitHandler.closed
    /\ RootCancel \in Callbacks(exitHandler)

\* C2: on the primary path, once construction of a subsystem is attempted the
\* config file has been read, initLogger has run exactly once and the
\* threshold is the one initLogger derives from the configured level.
C2_ConfigAndLoggerBeforeConstruction ==
    ConstructionAttempted =>
        /\ command = "root"
        /\ viperFile = "loaded"
        /\ initLoggerCalls = 1
        /\ logLevel = initLogger(GetLogLevel(FlagKeys, "loaded", flagLog, fileLog),
                                 "InfoLevel")

\* Both subsystems constructed with the threshold taken from --log DEBUG.
C2_Witness ==
    /\ node = "ok"
    /\ apiserver = "constructed"
    /\ flagLog = S_DEBUG
    /\ logLevel = "DebugLevel"

TestingOverridesApplied ==
    /\ \A n \in ActNames : activation[n] = 0
    /\ \A n \in Networks : \A h \in Heights : grading[n][h] = 2

\* C3: always does its steps in order: the config name and flag bindings are
\* set only after the testing overrides, the defaults only after the
\* bindings, and the interrupt listener exists only after all three.
C3_BootstrapOrder ==
    /\ (viperName \/ viperBound # {}) =>
          /\ viperName /\ viperBound = FlagKeys
          /\ testing => TestingOverridesApplied
    /\ viperDefaults # {} => viperDefaults = DefaultKeys /\ viperBound = FlagKeys
    /\ listenerPc # "none" =>
          /\ viperDefaults = DefaultKeys
          /\ viperBound = FlagKeys
          /\ viperName
          /\ testing => TestingOverridesApplied

\* The listener is installed at the end of a bootstrap in testing mode.
C3_Witness ==
    /\ testing
    /\ listenerPc = "waiting"
    /\ pc \in {"readconfig", "softreadconfig"}
    /\ TestingOverridesApplied
    /\ viperDefaults = DefaultKeys

\* C4: the listener ends the process only with status 0 and only after its
\* Close call has returned.
C4_CloseBeforeForcedExit ==
    /\ listenerPc \in {"exiting", "done"} => closeCalls >= 1 /\ exitHandler.closed
    /\ exitBy = "listener" =>
          /\ exitStatus = 0
          /\ listenerPc = "done"
          /\ closeCalls >= 1
          /\ exitHandler.closed

C4_Witness ==
    /\ terminated
    /\ exitBy = "listener"
    /\ closeCalls = 1

\* C5: under fair scheduling of the listener, a delivered interrupt leads to
\* the end of the process, wherever the primary path and the API task are.
C5_InterruptLeadsToTermination == (interrupts > 0) ~> terminated

\* The listener ended the process while the synchronizer loop was still
\* blocking and the API server still running.
C5_Witness ==
    /\ interrupts > 0
    /\ exitBy = "listener"
    /\ pc = "in_dblocksync"
    /\ apiserver = "running"

\* C6: over any sequence of AddCancel and Close calls no callback runs more
\* than once; the first Close runs every callback registered by then exactly
\* once, and a repeated Close runs nothing.
C6_CloseIdempotent ==
    /\ [](\A f \in Fns : cancelRuns[f] <= 1)
    /\ [][closeCalls' = closeCalls + 1 =>
            IF closeCalls = 0
            THEN \A f \in Callbacks(exitHandler) : cancelRuns'[f] = 1
            ELSE cancelRuns' = cancelRuns]_vars

\* Close was called more than once with the root cancel function and another
\* callback registered before the first call.
C6_Witness ==
    /\ closeCalls >= 2
    /\ Len(exitHandler.cancels) >= 2
    /\ cancelRuns[RootCancel] = 1
    /\ ctx = "cancelled"

\* C7 as stated: after a failed construction of the synchronizer the process
\* ends with status 1, with no API server and no synchronization loop.
C7_Original ==
    node = "failed" =>
        /\ apiserver = "none"
        /\ pc \in {"run_exit", "exited"}
        /\ terminated => exitStatus = 1

\* C7, amended: after a failed construction of the synchronizer the primary
\* path does nothing but os.Exit(1); the process ends with status 1 unless
\* the interrupt listener's exit with status 0 comes first; the API server
\* is never constructed or started and DBlockSync is never entered.
C7_NodeFailureIsFatal ==
    node = "failed" =>
        /\ apiserver = "none"
        /\ pc \in {"run_exit", "exited"}
        /\ pc = "exited" => terminated /\ exitBy = "Run" /\ exitStatus = 1
        /\ terminated =>
              \/ exitBy = "Run" /\ exitStatus = 1
              \/ exitBy = "listener" /\ exitStatus = 0

C7_Witness ==
    /\ node = "failed"
    /\ terminated
    /\ exitBy = "Run"
    /\ exitStatus = 1
    /\ apiserver = "none"

\* C8: the step by which the API server task returns changes nothing but the
\* task itself: the process keeps running, the root context keeps its state,
\* and the primary path stays where it is, free to enter or stay in the
\* synchronization loop.
C8_APIReturnIsIsolated ==
    [][(apiserver # "returned" /\ apiserver' = "returned") =>
          /\ UNCHANGED <<pc, ctx, node, exitVars, exitHandler, cancelRuns>>
          /\ ~terminated']_vars

\* The API task has returned and the synchronization loop is still running
\* on a live context.
C8_Witness ==
    /\ apiserver = "returned"
    /\ pc = "in_dblocksync"
    /\ ctx = "live"
    /\ ~terminated

NothingConstructed == node = "none" /\ apiserver = "none" /\ ctx = "none"

\* What both load paths share: initLogger runs at most once, never before
\* the load, and has run exactly once when the PreRun hook is through; on
\* the auxiliary path a failed load is not fatal.
C9_Common ==
    /\ initLoggerCalls <= 1
    /\ viperFile = "unread" => initLoggerCalls = 0
    /\ pc \in {"run_ctx", "aux_run"} => initLoggerCalls = 1
    /\ (command = "aux" /\ viperFile = "failed") =>
          /\ pc \in {"softreadconfig_initlogger", "aux_run", "run_return", "exited"}
          /\ exitStatus # 1
          /\ pc \in {"aux_run", "run_return", "exited"} => initLoggerCalls = 1

\* C9 as stated: a failed load on the primary path ends the process with
\* status 1.
C9_Original ==
    /\ C9_Common
    /\ (command = "root" /\ viperFile = "failed") =>
          /\ initLoggerCalls = 0
          /\ NothingConstructed
          /\ terminated => exitStatus = 1

\* C9, amended: after a failed load on the primary path ReadConfig does
\* nothing but os.Exit(1), so the process ends with status 1 unless the
\* interrupt listener's exit with status 0 comes first; the logger is not
\* initialized and nothing is constructed.  The rest as stated.
C9_ConfigLoadFailure ==
    /\ C9_Common
    /\ (command = "root" /\ viperFile = "failed") =>
          /\ initLoggerCalls = 0
          /\ NothingConstructed
          /\ pc \in {"readconfig_exit", "exited"}
          /\ pc = "exited" => terminated /\ exitBy = "ReadConfig" /\ exitStatus = 1
          /\ terminated =>
                \/ exitBy = "ReadConfig" /\ exitStatus = 1
                \/ exitBy = "listener" /\ exitStatus = 0

\* ReadConfig ended the process after a failed load on the primary path.
C9_Witness ==
    /\ command = "root"
    /\ viperFile = "failed"
    /\ terminated
    /\ exitBy = "ReadConfig"
    /\ exitStatus = 1
    /\ initLoggerCalls = 0

\* C10 as stated: status 1 only after a failed config load on the primary
\* path or a failed construction of the synchronizer, status 0 otherwise.
C10_Original ==
    terminated =>
        /\ exitStatus \in {0, 1}
        /\ exitStatus = 1 =>
              \/ command = "root" /\ viperFile = "failed"
              \/ node = "failed"

\* C10, amended: status 1 only after a failed config load on the primary
\* path, a failed construction of the synchronizer, or an error returned by
\* the command's execution to Execute (a command line cobra rejects);
\* status 0 for a normal return and for the listener's forced exit.
C10_ExitStatus ==
    terminated =>
        /\ exitStatus \in {0, 1}
        /\ exitStatus = 1 =>
              \/ exitBy = "ReadConfig" /\ command = "root" /\ viperFile = "failed"
              \/ exitBy = "Run" /\ node = "failed"
              \/ exitBy = "Execute" /\ ~argsOK
        /\ exitBy \in {"return", "listener"} => exitStatus = 0
        /\ exitBy \in {"ReadConfig", "Run", "Execute"} => exitStatus = 1

\* A forced shutdown during the synchronization loop: status 0.
C10_Witness ==
    /\ terminated
    /\ exitBy = "listener"
    /\ exitStatus = 0
    /\ pc = "in_dblocksync"


\* C11 as stated: once the root context is cancelled the primary path
\* returns, and the cancel callback runs at most once.
C11_Original ==
    /\ [](cancelRuns[RootCancel] <= 1)
    /\ (ctx = "cancelled") ~> (pc = "run_return")

\* C11, amended: once the root context is cancelled, and given a
\* synchronizer loop that returns once it is, the primary path returns
\* unless the process is ended first (by the listener's os.Exit(0), which
\* follows every cancellation, or by os.Exit(1) after a failed construction
\* of the synchronizer); it never hangs, and the cancel callback runs at
\* most once.
C11_CancelledRunEnds ==
    /\ [](cancelRuns[RootCancel] <= 1)
    /\ (ctx = "cancelled") ~> (pc = "run_return" \/ terminated)

\* Run has returned after a cancellation, before the listener's exit.
C11_Witness ==
    /\ ctx = "cancelled"
    /\ cancelRuns[RootCancel] = 1
    /\ pc = "run_return"
    /\ ~terminated


\* C12: the synchronizer and the API server task hold the root context and
\* nothing else; once the registered cancel function has run the context is
\* cancelled and every holder observes it; no step takes a cancelled context
\* back to uncancelled.
C12_CancellationBroadcast ==
    /\ [](node = "ok" => tokens.sync = "root")
    /\ [](APITaskStarted => tokens.api = "root")
    /\ [](cancelRuns[RootCancel] >= 1 =>
            /\ ctx = "cancelled"
            /\ node = "ok" => Observes("sync")
            /\ APITaskStarted => Observes("api"))
    /\ [][ctx = "cancelled" => ctx' = "cancelled"]_vars

\* Both holders observe the cancellation while they run.
C12_Witness ==
    /\ cancelRuns[RootCancel] = 1
    /\ pc = "in_dblocksync"
    /\ apiserver = "running"
    /\ Observes("sync")
    /\ Observes("api")


IsLetter(c) == (c >= 65 /\ c <= 90) \/ (c >= 97 /\ c <= 122)

\* Equality of two names up to the case of their letters.
EqualFold(a, b) ==
    /\ Len(a) = Len(b)
    /\ \A i \in 1 .. Len(a) :
          \/ a[i] = b[i]
          \/ /\ IsLetter(a[i])
             /\ IsLetter(b[i])
             /\ (a[i] - b[i] = 32 \/ b[i] - a[i] = 32)

ThresholdOf ==
    {<<S_trace, "TraceLevel">>, <<S_debug, "DebugLevel">>, <<S_info, "InfoLevel">>,
     <<S_warn, "WarnLevel">>, <<S_error, "ErrorLevel">>, <<S_fatal, "FatalLevel">>}

\* C13: an initLogger call sets the threshold that belongs to the configured
\* name, compared without regard to case, when the name is one of trace,
\* debug, info, warn, error, fatal; for any other name, the empty one
\* included, the threshold stays what it was.
C13_InitLoggerMapping ==
    [][initLoggerCalls' = initLoggerCalls + 1 =>
          IF \E e \in ThresholdOf : EqualFold(flagLog', e[1])
          THEN \E e \in ThresholdOf : EqualFold(flagLog', e[1]) /\ logLevel' = e[2]
          ELSE logLevel' = logLevel]_vars

\* Two calls: FATAL set the fatal threshold, then an unmatched name left it.
C13_Witness ==
    /\ pc = "logger"
    /\ initLoggerCalls = 2
    /\ flagLog = S_warning
    /\ logLevel = "FatalLevel"


BootstrapDone == pc \in {"run_ctx", "aux_run"}

FileSupplies(key) ==
    /\ viperFile = "loaded"
    /\ IF key = "LoggingLevel" THEN fileLog # Unset ELSE key \in fileKeys

\* C14: after the hooks, each of the five keys bound to a flag reads as the
\* flag's value when the user set the flag, else as the file's value when
\* the file supplies the key, else as the flag's default; each of the two
\* keys with a seeded default reads as the file's value when the file
\* supplies it, else as the seeded default.
C14_Precedence ==
    BootstrapDone =>
        /\ GetLogLevel(viperBound, viperFile, flagLog, fileLog) =
              (IF flagLog # Unset THEN flagLog
               ELSE IF FileSupplies("LoggingLevel") THEN fileLog
               ELSE S_info)
        /\ \A key \in {"Server", "Wallet", "Pegnetd", "APIListen"} :
              GetValue(key, viperBound, viperDefaults, viperFile, flagsSet, fileKeys) =
                 (IF key \in flagsSet THEN <<"flag", key>>
                  ELSE IF FileSupplies(key) THEN <<"file", key>>
                  ELSE <<"flagdefault", key>>)
        /\ \A key \in {"DBlockSyncRetryPeriod", "SqliteDBPath"} :
              GetValue(key, viperBound, viperDefaults, viperFile, flagsSet, fileKeys) =
                 (IF FileSupplies(key) THEN <<"file", key>> ELSE <<"default", key>>)

\* All three tiers decide at once: --wallet set and in the file, the server
\* key only in the file, the api key in neither, one default key in the file.
C14_Witness ==
    /\ BootstrapDone
    /\ viperFile = "loaded"
    /\ flagsSet = {"Wallet"}
    /\ fileKeys = {"Wallet", "Server", "SqliteDBPath"}
    /\ flagLog = Unset
    /\ fileLog = S_Warn


\* C15: with --testing set, once always is through, PegnetActivation,
\* GradingV2Activation and both networks' activation heights are 0 and both
\* networks' grading selectors return 2 at every height; with the flag unset
\* no step changes any of them.
C15_TestingOverrides ==
    /\ [](testing /\ listenerPc # "none" =>
            /\ \A n \in {"PegnetActivation", "GradingV2Activation", "MainNet", "TestNet"} :
                  activation[n] = 0
            /\ \A n \in {"MainNet", "TestNet"} :
                  \A h \in 0 .. MaxHeight : grading[n][h] = 2)
    /\ [][~testing => UNCHANGED <<activation, grading>>]_vars

\* Bootstrap in testing mode is through and every parameter is overridden.
C15_Witness ==
    /\ testing
    /\ listenerPc = "waiting"
    /\ pc \in {"readconfig", "softreadconfig"}
    /\ \A n \in ActNames : activation[n] = 0
    /\ \A h \in Heights : grading["TestNet"][h] = 2


\* C16: once the synchronizer is constructed or the API server exists, no
\* step writes the configuration store (name and paths, bindings, defaults,
\* file contents) or the activation parameters.
C16_ReadOnlyAfterBootstrap ==
    [][(node # "none" \/ apiserver # "none") =>
          UNCHANGED <<activation, grading, viperName, viperBound, viperDefaults,
                      viperFile>>]_vars

\* Both subsystems run on the configuration as bootstrap left it.
C16_Witness ==
    /\ pc = "in_dblocksync"
    /\ node = "ok"
    /\ apiserver = "running"
    /\ viperFile = "loaded"
    /\ viperBound = FlagKeys
    /\ viperDefaults = DefaultKeys


\* C17: however many interrupts are delivered, the listener calls Close at
\* most once: after its one Close it only exits and never receives again.
C17_CloseAtMostOnce ==
    /\ closeCalls <= 1
    /\ closeCalls = 1 => listenerPc \in {"exiting", "done"}
    /\ listenerPc = "done" => terminated

\* A second interrupt was delivered and Close still ran once.
C17_Witness ==
    /\ interrupts >= 2
    /\ closeCalls = 1
    /\ signalChan = 1
    /\ listenerPc = "done"


\* C18: the root cancel function runs, and the root context becomes
\* cancelled, only through the exit handler after an interrupt made the
\* listener call Close: in the Close call itself, or in an AddCancel on the
\* handler that Close has closed.  When Run returns with no interrupt
\* received, the context is live, the cancel function has never run and the
\* API server task has not been signalled.
C18_CancelOnlyByClose ==
    /\ []((ctx = "cancelled" \/ cancelRuns[RootCancel] >= 1) =>
            /\ interrupts >= 1
            /\ closeCalls >= 1
            /\ exitHandler.closed)
    /\ [][(ctx # "cancelled" /\ ctx' = "cancelled") =>
            \/ closeCalls' = closeCalls + 1
            \/ exitHandler.closed /\ Len(exitHandler'.cancels) = Len(exitHandler.cancels) + 1]_vars
    /\ []((interrupts = 0 /\ command = "root" /\ pc \in {"run_return", "exited"}
             /\ node = "ok") =>
            /\ ctx = "live"
            /\ cancelRuns[RootCancel] = 0
            /\ ~Observes("api"))

\* DBlockSync returned on its own, Run returned, and the API server task is
\* still running on a live context.
C18_Witness ==
    /\ interrupts = 0
    /\ command = "root"
    /\ pc = "run_return"
    /\ ctx = "live"
    /\ apiserver = "running"
    /\ tokens.api = "root"

====
